---- MODULE Spec2Model ----
(***************************************************************************)
(* Parse.Config (src/src/ParseConfig.js): the process-wide config cache,   *)
(* the persisted snapshot under 'currentConfig', and the two static entry  *)
(* points current() and get() of the default controller, run as            *)
(* single-threaded cooperative promise chains.                             *)
(***************************************************************************)
EXTENDS Integers, Sequences, FiniteSets, TLC

\* Number of static calls (get() or current()) made in one behaviour.
MaxCalls == 3
\* Number of instance accessor calls (get(attr) or escape(attr)) made in one
\* behaviour.
MaxAccesses == 2
\* Number of static calls made in one behaviour with instance accessor calls.
MaxHolders == 2

(***************************************************************************)
(* JavaScript values.  Every value is a record [t, v]: t is the kind, v    *)
(* the payload.  An object's payload is the sequence of its own enumerable *)
(* properties [k, x] in insertion order.                                   *)
(***************************************************************************)
Undefined == [t |-> "undefined", v |-> 0]
Null == [t |-> "null", v |-> 0]
Num(n) == [t |-> "number", v |-> n]
Str(s) == [t |-> "string", v |-> s]
Obj(props) == [t |-> "object", v |-> props]
Prop(k, x) == [k |-> k, x |-> x]
\* Values decode() builds that are not plain JSON: a Date and a GeoPoint.
DateOf(iso) == [t |-> "Date", v |-> iso]
GeoPointOf(lat) == [t |-> "GeoPoint", v |-> lat]
\* The outcome of an evaluation that threw instead of returning a value.
Thrown == [t |-> "throw", v |-> 0]

EmptyObject == Obj(<<>>)

\* F(val), with val evaluated once and named: a local variable of the code.
With(val, F(_)) == CHOOSE res \in {F(x) : x \in {val}} : TRUE

\* ToBoolean, as used by if (x), !x and x && y.
Truthy(val) ==
  CASE val.t = "undefined" -> FALSE
    [] val.t = "null" -> FALSE
    [] val.t = "number" -> val.v # 0
    [] val.t = "string" -> val.v # ""
    [] OTHER -> TRUE

\* typeof val === 'object'
TypeofObject(val) == val.t \in {"null", "object", "Date", "GeoPoint"}

HasProp(obj, key) ==
  /\ obj.t = "object"
  /\ \E i \in 1..Len(obj.v) : obj.v[i].k = key

\* obj[key]: undefined when the property is absent.
GetProp(obj, key) ==
  IF HasProp(obj, key)
    THEN obj.v[CHOOSE i \in 1..Len(obj.v) : obj.v[i].k = key].x
    ELSE Undefined

\* A function object, named by the property that holds it.
Function(name) == [t |-> "function", v |-> name]
\* Properties every object inherits from Object.prototype.
PrototypeNames == {"toString", "constructor"}

\* obj[key] with an arbitrary key: an own property, else the property
\* inherited from Object.prototype, else undefined.
Member(obj, key) ==
  IF HasProp(obj, key) THEN GetProp(obj, key)
  ELSE IF key \in PrototypeNames THEN Function(key)
  ELSE Undefined

\* obj[key] = x: replaces in place, or appends a new property.
SetProp(obj, key, x) ==
  IF HasProp(obj, key)
    THEN Obj([i \in 1..Len(obj.v) |->
               IF obj.v[i].k = key THEN Prop(key, x) ELSE obj.v[i]])
    ELSE Obj(Append(obj.v, Prop(key, x)))

(***************************************************************************)
(* JSON text is a sequence of tokens [k, v].                               *)
(***************************************************************************)
Punct(c) == [k |-> "punct", v |-> c]
\* Number literals of the texts used here, by value 0..3.
Digits == <<"0", "1", "2", "3">>
NumTok(n) == [k |-> "num", v |-> Digits[n + 1]]
StrTok(s) == [k |-> "str", v |-> s]
NullTok == [k |-> "lit", v |-> "null"]

IsPunct(tk, c) == tk.k = "punct" /\ tk.v = c

RECURSIVE Stringify(_)
RECURSIVE StringifyProps(_, _, _)
\* JSON.stringify(val) for a value that serializes to text.  A Date
\* serializes through toJSON as its ISO string; a property whose value is
\* undefined is left out.
Stringify(val) ==
  CASE val.t = "number" -> <<NumTok(val.v)>>
    [] val.t = "string" -> <<StrTok(val.v)>>
    [] val.t = "Date" -> Stringify(val.v)
    [] val.t = "GeoPoint" ->
         Stringify(Obj(<<Prop("__type", Str("GeoPoint")), Prop("latitude", val.v)>>))
    [] val.t = "object" ->
         <<Punct("{")>> \o StringifyProps(val.v, 1, TRUE) \o <<Punct("}")>>
    [] OTHER -> <<NullTok>>

StringifyProps(props, i, first) ==
  IF i > Len(props) THEN <<>>
  ELSE IF props[i].x.t = "undefined" THEN StringifyProps(props, i + 1, first)
  ELSE (IF first THEN <<>> ELSE <<Punct(",")>>)
         \o <<StrTok(props[i].k), Punct(":")>>
         \o Stringify(props[i].x)
         \o StringifyProps(props, i + 1, FALSE)

ParseFail == [ok |-> FALSE, val |-> Undefined, next |-> 0]
ParseOk(val, next) == [ok |-> TRUE, val |-> val, next |-> next]

RECURSIVE ParseValue(_, _)
RECURSIVE ParseMembers(_, _, _)
\* One JSON value starting at token i.
ParseValue(toks, i) ==
  IF i > Len(toks) THEN ParseFail
  ELSE LET tk == toks[i] IN
    CASE tk.k = "num" ->
           ParseOk(Num(CHOOSE n \in 0..(Len(Digits) - 1) : Digits[n + 1] = tk.v), i + 1)
      [] tk.k = "str" -> ParseOk(Str(tk.v), i + 1)
      [] tk.k = "lit" -> ParseOk(Null, i + 1)
      [] IsPunct(tk, "{") ->
           IF i + 1 <= Len(toks) /\ IsPunct(toks[i + 1], "}")
             THEN ParseOk(EmptyObject, i + 2)
             ELSE ParseMembers(toks, i + 1, EmptyObject)
      [] OTHER -> ParseFail

\* "key" : value, then either , and more members or the closing brace.
ParseMembers(toks, i, acc) ==
  IF i + 1 > Len(toks) \/ toks[i].k # "str" \/ ~IsPunct(toks[i + 1], ":")
    THEN ParseFail
  ELSE With(ParseValue(toks, i + 2), LAMBDA r :
    IF ~r.ok \/ r.next > Len(toks) THEN ParseFail
    ELSE LET obj == SetProp(acc, toks[i].v, r.val) IN
      CASE IsPunct(toks[r.next], "}") -> ParseOk(obj, r.next + 1)
        [] IsPunct(toks[r.next], ",") -> ParseMembers(toks, r.next + 1, obj)
        [] OTHER -> ParseFail)

\* JSON.parse(text): Thrown on a SyntaxError.
JSONParse(text) ==
  With(ParseValue(text, 1), LAMBDA r :
    IF r.ok /\ r.next = Len(text) + 1 THEN r.val ELSE Thrown)

RECURSIVE Decode(_)
RECURSIVE DecodeProps(_, _, _)
\* decode(value): primitives as they are; {__type: 'Date'} to a Date;
\* {__type: 'GeoPoint'} to a GeoPoint, whose constructor throws unless the
\* latitude is a number; any other object property by property.
Decode(val) ==
  IF val.t # "object" THEN val
  ELSE IF GetProp(val, "__type") = Str("Date") THEN DateOf(GetProp(val, "iso"))
  ELSE IF GetProp(val, "__type") = Str("GeoPoint") THEN
    (IF GetProp(val, "latitude").t = "number"
       THEN GeoPointOf(GetProp(val, "latitude"))
       ELSE Thrown)
  ELSE DecodeProps(val.v, 1, EmptyObject)

DecodeProps(props, i, copy) ==
  IF i > Len(props) THEN copy
  ELSE With(Decode(props[i].x), LAMBDA d :
    IF d = Thrown THEN Thrown
    ELSE DecodeProps(props, i + 1, SetProp(copy, props[i].k, d)))


(***************************************************************************)
(* The sampled inputs: raw params objects, backend responses and stored    *)
(* snapshots.                                                              *)
(***************************************************************************)
ParamsAB == Obj(<<Prop("a", Num(1)), Prop("b", Str("x"))>>)
ParamsDate ==
  Obj(<<Prop("d", Obj(<<Prop("__type", Str("Date")), Prop("iso", Str("t"))>>))>>)
ParamsBadGeo ==
  Obj(<<Prop("g", Obj(<<Prop("__type", Str("GeoPoint")),
                        Prop("latitude", Str("n"))>>))>>)
ParamsSamples == {ParamsAB, ParamsDate, ParamsBadGeo}
\* A string with a character HTML-escaping rewrites, the empty string, null.
ParamsEscape ==
  Obj(<<Prop("s", Str("<")), Prop("e", Str("")), Prop("n", Null)>>)
\* A params object whose own parameters are named "__type" and "iso".
ParamsTyped == Obj(<<Prop("__type", Str("Date")), Prop("iso", Str("t"))>>)

ResponseOf(params) == Obj(<<Prop("params", params)>>)
Responses ==
  {Undefined, EmptyObject, ResponseOf(Null)}
    \cup {ResponseOf(p) : p \in ParamsSamples}

\* What Storage holds under a path: no item (getItem gives null) or a text.
NoItem == [has |-> FALSE, text |-> <<>>]
Item(text) == [has |-> TRUE, text |-> text]
SnapshotA == Obj(<<Prop("a", Num(1))>>)
InitialSnapshots ==
  { NoItem,
    Item(<<>>),
    Item(<<Punct("{"), StrTok("a")>>),
    Item(<<NumTok(1)>>),
    Item(<<NullTok>>),
    Item(Stringify(SnapshotA)),
    Item(Stringify(ParamsDate)),
    Item(Stringify(ParamsBadGeo)) }

\* if (configData): null and the empty string are falsy.
ItemTruthy(item) == item.has /\ item.text # <<>>

(***************************************************************************)
(* Program state.                                                          *)
(***************************************************************************)
VARIABLES
  async,          \* Storage.async(): the capability flag of the backend
  stored,         \* the item Storage holds under generatePath('currentConfig')
  heap,           \* the ParseConfig objects constructed so far, by identity
  currentConfig,  \* the module variable: 0 for null, else an object of heap
  calls,          \* the static calls made so far, each with its position
  accesses        \* the instance accessor calls made so far, with results

vars == <<async, stored, heap, currentConfig, calls, accesses>>

\* new ParseConfig()
NewParseConfig == [attributes |-> EmptyObject, _escapedAttributes |-> EmptyObject]

\* The response slot of a call whose request promise has not been fulfilled.
NoResponse == [t |-> "none", v |-> 0]

\* A static call that has just been entered.
NewCall(op, pc) ==
  [ op |-> op, pc |-> pc, response |-> NoResponse, config |-> 0,
    text |-> <<>>, data |-> NoItem, result |-> 0, error |-> "",
    readStorage |-> FALSE ]

CallIds == 1..Len(calls)

Init ==
  /\ async \in BOOLEAN
  /\ stored \in InitialSnapshots
  /\ heap = <<>>
  /\ currentConfig = 0
  /\ calls = <<>>
  /\ accesses = <<>>

\* A decodePayload that returns the parsed JSON without decoding it.
decodePayload_NoDecode(data) ==
  With(JSONParse(data), LAMBDA json :
    IF json = Thrown THEN Null
    ELSE IF Truthy(json) /\ TypeofObject(json) THEN json
    ELSE Undefined)

\* A decodePayload without the typeof json === 'object' test.
decodePayload_NoTypeTest(data) ==
  With(JSONParse(data), LAMBDA json :
    IF json = Thrown THEN Null
    ELSE IF Truthy(json) THEN
      With(Decode(json), LAMBDA d : IF d = Thrown THEN Null ELSE d)
    ELSE Undefined)

\* decodePayload(data)
decodePayload(data) ==
  With(JSONParse(data), LAMBDA json :
    IF json = Thrown THEN Null
    ELSE IF Truthy(json) /\ TypeofObject(json) THEN
      With(Decode(json), LAMBDA d : IF d = Thrown THEN Null ELSE d)
    ELSE Undefined)

(***************************************************************************)
(* DefaultController.current()                                             *)
(***************************************************************************)
\* A current() that returns a fresh copy of the cached config.
CurrentCached_Copy ==
  /\ Len(calls) < MaxCalls
  /\ currentConfig # 0
  /\ heap' = Append(heap, heap[currentConfig])
  /\ calls' = Append(calls,
       [NewCall("current", "returned") EXCEPT !.result = Len(heap) + 1])
  /\ UNCHANGED <<accesses, async, stored, currentConfig>>

\* if (currentConfig) return currentConfig;
CurrentCached ==
  /\ Len(calls) < MaxCalls
  /\ currentConfig # 0
  /\ calls' = Append(calls,
       [NewCall("current", "returned") EXCEPT !.result = currentConfig])
  /\ UNCHANGED <<accesses, async, stored, heap, currentConfig>>

\* A synchronous branch that caches the config whether or not it was loaded.
SyncLoad_AlwaysCache(configData) ==
  IF ~ItemTruthy(configData)
    THEN [cached |-> TRUE, config |-> NewParseConfig]
    ELSE With(decodePayload(configData.text), LAMBDA attributes :
      IF Truthy(attributes)
        THEN [ cached |-> TRUE,
               config |-> [NewParseConfig EXCEPT !.attributes = attributes] ]
        ELSE [cached |-> TRUE, config |-> NewParseConfig])

\* The config the synchronous branch returns for configData.
SyncLoad(configData) ==
  IF ~ItemTruthy(configData)
    THEN [cached |-> FALSE, config |-> NewParseConfig]
    ELSE With(decodePayload(configData.text), LAMBDA attributes :
      IF Truthy(attributes)
        THEN [ cached |-> TRUE,
               config |-> [NewParseConfig EXCEPT !.attributes = attributes] ]
        ELSE [cached |-> FALSE, config |-> NewParseConfig])

\* Cache absent, synchronous storage: read, decode, cache and return.
CurrentSync ==
  /\ Len(calls) < MaxCalls
  /\ currentConfig = 0
  /\ ~async
  /\ LET load == SyncLoad(stored)
         ref == Len(heap) + 1
     IN /\ heap' = Append(heap, load.config)
        /\ currentConfig' = IF load.cached THEN ref ELSE currentConfig
        /\ calls' = Append(calls,
             [NewCall("current", "returned") EXCEPT
                !.config = ref, !.data = stored, !.result = ref,
                !.readStorage = TRUE])
  /\ UNCHANGED <<accesses, async, stored>>

\* Cache absent, asynchronous storage: start the read, return a promise.
CurrentAsync ==
  /\ Len(calls) < MaxCalls
  /\ currentConfig = 0
  /\ async
  /\ heap' = Append(heap, NewParseConfig)
  /\ calls' = Append(calls,
       [NewCall("current", "read") EXCEPT
          !.config = Len(heap) + 1, !.readStorage = TRUE])
  /\ UNCHANGED <<accesses, async, stored, currentConfig>>

\* Storage.getItemAsync reads the item; its promise is not yet settled.
StorageRead(i) ==
  /\ calls[i].op = "current" /\ calls[i].pc = "read"
  /\ calls' = [calls EXCEPT ![i].pc = "got", ![i].data = stored]
  /\ UNCHANGED <<accesses, async, stored, heap, currentConfig>>

\* An asynchronous continuation that fills the config but never caches it.
AsyncLoad_NoCache(configData) ==
  IF ~ItemTruthy(configData)
    THEN [cached |-> FALSE, config |-> NewParseConfig]
    ELSE With(decodePayload(configData.text), LAMBDA attributes :
      IF Truthy(attributes)
        THEN [ cached |-> FALSE,
               config |-> [NewParseConfig EXCEPT !.attributes = attributes] ]
        ELSE [cached |-> FALSE, config |-> NewParseConfig])

\* The config the asynchronous continuation resolves with for configData.
AsyncLoad(configData) ==
  IF ~ItemTruthy(configData)
    THEN [cached |-> FALSE, config |-> NewParseConfig]
    ELSE With(decodePayload(configData.text), LAMBDA attributes :
      IF Truthy(attributes)
        THEN [ cached |-> TRUE,
               config |-> [NewParseConfig EXCEPT !.attributes = attributes] ]
        ELSE [cached |-> FALSE, config |-> NewParseConfig])

\* The then-callback of getItemAsync.
CurrentContinue(i) ==
  /\ calls[i].op = "current" /\ calls[i].pc = "got"
  /\ LET load == AsyncLoad(calls[i].data)
         ref == calls[i].config
     IN /\ heap' = [heap EXCEPT ![ref].attributes = load.config.attributes]
        /\ currentConfig' = IF load.cached THEN ref ELSE currentConfig
        /\ calls' = [calls EXCEPT ![i].pc = "resolved", ![i].result = ref]
  /\ UNCHANGED <<accesses, async, stored>>

(***************************************************************************)
(* DefaultController.get()                                                 *)
(***************************************************************************)
\* RESTController.request('GET', 'config', {}, {})
GetCall ==
  /\ Len(calls) < MaxCalls
  /\ calls' = Append(calls, NewCall("get", "request"))
  /\ UNCHANGED <<accesses, async, stored, heap, currentConfig>>

\* A rejected request that also drops the process-wide cache.
RequestFails_Clear(i) ==
  /\ calls[i].op = "get" /\ calls[i].pc = "request"
  /\ calls' = [calls EXCEPT ![i].pc = "rejected", ![i].error = "network"]
  /\ currentConfig' = 0
  /\ UNCHANGED <<accesses, async, stored, heap>>

\* The request promise rejects.
RequestFails(i) ==
  /\ calls[i].op = "get" /\ calls[i].pc = "request"
  /\ calls' = [calls EXCEPT ![i].pc = "rejected", ![i].error = "network"]
  /\ UNCHANGED <<accesses, async, stored, heap, currentConfig>>

\* !response || !response.params
InvalidResponse(response) ==
  ~Truthy(response) \/ ~Truthy(GetProp(response, "params"))

RECURSIVE DecodeFields(_, _, _)
\* for (var attr in params) attributes[attr] = decode(params[attr]);
DecodeFields(props, i, attributes) ==
  IF i > Len(props) THEN attributes
  ELSE With(Decode(props[i].x), LAMBDA d :
    IF d = Thrown THEN Thrown
    ELSE DecodeFields(props, i + 1, SetProp(attributes, props[i].k, d)))

\* A get() that stores the raw params without decoding them.
GetAttributes_Raw(response) == GetProp(response, "params")

\* The attributes get() gives the new config for a valid response.
GetAttributes(response) ==
  DecodeFields(GetProp(response, "params").v, 1, EmptyObject)

\* The text get() hands to Storage.setItemAsync.
GetSnapshot(response) == Stringify(GetProp(response, "params"))

\* A rejection that also clears the process-wide cache.
GetRejectInvalid_Clear(i, response) ==
  /\ calls' = [calls EXCEPT ![i].pc = "rejected",
                            ![i].response = response,
                            ![i].error = "INVALID_JSON"]
  /\ currentConfig' = 0
  /\ UNCHANGED heap

\* return Promise.reject(new ParseError(ParseError.INVALID_JSON, ...))
GetRejectInvalid(i, response) ==
  /\ calls' = [calls EXCEPT ![i].pc = "rejected",
                            ![i].response = response,
                            ![i].error = "INVALID_JSON"]
  /\ UNCHANGED <<heap, currentConfig>>

\* A get() that assigns currentConfig before the decoding loop, so that a
\* throwing decode() leaves the half-built config in the cache.
GetRejectDecode_Install(i, response) ==
  /\ calls' = [calls EXCEPT ![i].pc = "rejected",
                            ![i].response = response,
                            ![i].error = "decode"]
  /\ heap' = Append(heap, NewParseConfig)
  /\ currentConfig' = Len(heap) + 1

\* decode() throws inside the then-callback: the promise rejects with it.
GetRejectDecode(i, response) ==
  /\ calls' = [calls EXCEPT ![i].pc = "rejected",
                            ![i].response = response,
                            ![i].error = "decode"]
  /\ UNCHANGED <<heap, currentConfig>>

\* A get() that builds the config and issues the write but does not replace
\* the process-wide cache.
GetInstall_NoCache(i, response) ==
  LET ref == Len(heap) + 1 IN
    /\ heap' = Append(heap, [NewParseConfig EXCEPT
                               !.attributes = GetAttributes(response)])
    /\ currentConfig' = currentConfig
    /\ calls' = [calls EXCEPT ![i].pc = "write",
                              ![i].response = response,
                              ![i].config = ref,
                              ![i].text = GetSnapshot(response)]

\* A get() that, when the cache holds a Config, refills that Config in place
\* instead of constructing a new one.
GetInstall_InPlace(i, response) ==
  LET ref == IF currentConfig # 0 THEN currentConfig ELSE Len(heap) + 1 IN
    /\ heap' = IF currentConfig # 0
                 THEN [heap EXCEPT ![ref].attributes = GetAttributes(response)]
                 ELSE Append(heap, [NewParseConfig EXCEPT
                                      !.attributes = GetAttributes(response)])
    /\ currentConfig' = ref
    /\ calls' = [calls EXCEPT ![i].pc = "write",
                              ![i].response = response,
                              ![i].config = ref,
                              ![i].text = GetSnapshot(response)]

\* new ParseConfig(); fill attributes; currentConfig = config; setItemAsync.
GetInstall(i, response) ==
  LET ref == Len(heap) + 1 IN
    /\ heap' = Append(heap, [NewParseConfig EXCEPT
                               !.attributes = GetAttributes(response)])
    /\ currentConfig' = ref
    /\ calls' = [calls EXCEPT ![i].pc = "write",
                              ![i].response = response,
                              ![i].config = ref,
                              ![i].text = GetSnapshot(response)]

\* The then-callback of the request, called with response.
GetThen(i, response) ==
  IF InvalidResponse(response) THEN GetRejectInvalid(i, response)
  ELSE IF GetAttributes(response) = Thrown THEN GetRejectDecode(i, response)
  ELSE GetInstall(i, response)

\* The request promise is fulfilled, with any response of the backend.
GetResponse(i) ==
  /\ calls[i].op = "get" /\ calls[i].pc = "request"
  /\ \E response \in Responses : GetThen(i, response)
  /\ UNCHANGED <<accesses, async, stored>>

\* Storage.setItemAsync stores the text; its promise is not yet settled.
StorageWrite(i) ==
  /\ calls[i].op = "get" /\ calls[i].pc = "write"
  /\ stored' = Item(calls[i].text)
  /\ calls' = [calls EXCEPT ![i].pc = "written"]
  /\ UNCHANGED <<accesses, async, heap, currentConfig>>

\* A failed write that rolls the process-wide cache back to null.
StorageWriteFails_Rollback(i) ==
  /\ calls[i].op = "get" /\ calls[i].pc = "write"
  /\ calls' = [calls EXCEPT ![i].pc = "rejected", ![i].error = "storage"]
  /\ currentConfig' = 0
  /\ UNCHANGED <<accesses, async, stored, heap>>

\* Storage.setItemAsync rejects without storing.
StorageWriteFails(i) ==
  /\ calls[i].op = "get" /\ calls[i].pc = "write"
  /\ calls' = [calls EXCEPT ![i].pc = "rejected", ![i].error = "storage"]
  /\ UNCHANGED <<accesses, async, stored, heap, currentConfig>>

\* A get() that returns config without waiting for setItemAsync.
GetResolve_Early(i) ==
  /\ calls[i].op = "get" /\ calls[i].pc \in {"write", "written"}
  /\ calls' = [calls EXCEPT ![i].pc = "resolved", ![i].result = calls[i].config]
  /\ UNCHANGED <<accesses, async, stored, heap, currentConfig>>

\* The then-callback of setItemAsync: return config.
GetResolve(i) ==
  /\ calls[i].op = "get" /\ calls[i].pc = "written"
  /\ calls' = [calls EXCEPT ![i].pc = "resolved", ![i].result = calls[i].config]
  /\ UNCHANGED <<accesses, async, stored, heap, currentConfig>>

StorageReadStep == \E i \in CallIds : StorageRead(i)
CurrentContinueStep == \E i \in CallIds : CurrentContinue(i)
RequestFailsStep == \E i \in CallIds : RequestFails(i)
GetResponseStep == \E i \in CallIds : GetResponse(i)
StorageWriteStep == \E i \in CallIds : StorageWrite(i)
StorageWriteFailsStep == \E i \in CallIds : StorageWriteFails(i)
GetResolveStep == \E i \in CallIds : GetResolve(i)

(***************************************************************************)
(* The instance accessors get(attr) and escape(attr).                      *)
(***************************************************************************)
\* The Configs callers hold: those a static call returned or resolved with.
Published == {calls[i].result : i \in {j \in CallIds : calls[j].result # 0}}

\* The attribute names callers ask for: "s", "e" and "n" are attributes of
\* ParamsEscape, "zz" is an attribute of no sample, "toString" is a property
\* of Object.prototype.
AttrNames == {"s", "e", "n", "zz", "toString"}

\* val.toString(), for a val that is neither null nor undefined.
toString(val) ==
  CASE val.t = "string" -> val.v
    [] val.t = "number" -> Digits[val.v + 1]
    [] val.t = "Date" -> "Thu Jan 01 1970"
    [] val.t = "function" -> "function () { [native code] }"
    [] OTHER -> "[object Object]"

\* The HTML-escaping utility, on the strings of the samples: the characters
\* with an entity are rewritten, the others are kept.
EscapeHtml(str) ==
  CASE str = "<" -> "&lt;"
    [] str = ">" -> "&gt;"
    [] str = "&" -> "&amp;"
    [] OTHER -> str

\* One instance accessor call: the Config, the attribute name, the value
\* returned, and whether the call ran the HTML-escaping utility.
Access(op, c, attr, value, ran) ==
  [op |-> op, config |-> c, attr |-> attr, value |-> value, ran |-> ran]

\* get(attr) { return this.attributes[attr]; }
GetAttr(self, attr) == Member(self.attributes, attr)

\* An escape(attr) that also overwrites the attribute with its escaped form.
EscapeAttr_InPlace(self, attr) ==
  LET html == Member(self._escapedAttributes, attr)
      val == Member(self.attributes, attr)
      compute == val.t \notin {"null", "undefined"}
      escaped == IF compute THEN Str(EscapeHtml(toString(val))) ELSE Str("")
  IN IF Truthy(html)
       THEN [value |-> html, ran |-> FALSE, self |-> self]
       ELSE [ value |-> escaped, ran |-> compute,
              self |-> [self EXCEPT
                          !._escapedAttributes = SetProp(@, attr, escaped),
                          !.attributes = SetProp(@, attr, escaped)] ]

\* escape(attr): the value returned, whether the utility ran, and the object
\* after the call.
EscapeAttr(self, attr) ==
  LET html == Member(self._escapedAttributes, attr)
      val == Member(self.attributes, attr)
      compute == val.t \notin {"null", "undefined"}
      escaped == IF compute THEN Str(EscapeHtml(toString(val))) ELSE Str("")
  IN IF Truthy(html)
       THEN [value |-> html, ran |-> FALSE, self |-> self]
       ELSE [ value |-> escaped, ran |-> compute,
              self |-> [self EXCEPT
                          !._escapedAttributes = SetProp(@, attr, escaped)] ]

\* A caller calls get(attr) on a Config it holds.
InstanceGet(c, attr) ==
  /\ Len(accesses) < MaxAccesses
  /\ accesses' = Append(accesses,
       Access("get", c, attr, GetAttr(heap[c], attr), FALSE))
  /\ UNCHANGED <<async, stored, heap, currentConfig, calls>>

\* A caller calls escape(attr) on a Config it holds.
Escape(c, attr) ==
  /\ Len(accesses) < MaxAccesses
  /\ LET e == EscapeAttr(heap[c], attr)
     IN /\ accesses' = Append(accesses, Access("escape", c, attr, e.value, e.ran))
        /\ heap' = [heap EXCEPT ![c] = e.self]
  /\ UNCHANGED <<async, stored, currentConfig, calls>>

InstanceGetStep == \E c \in Published : \E attr \in AttrNames : InstanceGet(c, attr)
EscapeStep == \E c \in Published : \E attr \in AttrNames : Escape(c, attr)

Next ==
  \/ CurrentCached
  \/ CurrentSync
  \/ CurrentAsync
  \/ StorageReadStep
  \/ CurrentContinueStep
  \/ GetCall
  \/ RequestFailsStep
  \/ GetResponseStep
  \/ StorageWriteStep
  \/ StorageWriteFailsStep
  \/ GetResolveStep

Spec == Init /\ [][Next]_vars

\* A storage promise settles and its continuation runs: a pending read is
\* delivered, and then the then-callback of getItemAsync runs.
FairSpec ==
  Spec /\ WF_vars(StorageReadStep) /\ WF_vars(CurrentContinueStep)

\* The static entry points together with the instance accessors, on a
\* device whose storage is empty or holds the snapshot of ParamsEscape.
AccessorInit ==
  /\ async \in BOOLEAN
  /\ stored \in {NoItem, Item(Stringify(ParamsEscape))}
  /\ heap = <<>>
  /\ currentConfig = 0
  /\ calls = <<>>
  /\ accesses = <<>>

\* The request promise is fulfilled with the response {params: ParamsEscape}.
AccessorResponse(i) ==
  /\ calls[i].op = "get" /\ calls[i].pc = "request"
  /\ GetThen(i, ResponseOf(ParamsEscape))
  /\ UNCHANGED <<accesses, async, stored>>

AccessorResponseStep == \E i \in CallIds : AccessorResponse(i)

\* A step of a static call, of which at most MaxHolders are made.
StaticStep == (Next \/ AccessorResponseStep) /\ Len(calls') <= MaxHolders

AccessorNext ==
  \/ StaticStep
  \/ InstanceGetStep
  \/ EscapeStep

AccessorSpec == AccessorInit /\ [][AccessorNext]_vars

\* The snapshot of one process loaded by the next: get() on a device whose
\* storage is empty, for params that may have a parameter named "__type";
\* then the process ends and a new one calls current().
RoundTripInit ==
  /\ Init
  /\ stored = NoItem

\* The request promise is fulfilled with a response that has params.
RoundTripResponse(i) ==
  /\ calls[i].op = "get" /\ calls[i].pc = "request"
  /\ \E params \in ParamsSamples \cup {ParamsTyped} :
       GetThen(i, ResponseOf(params))
  /\ UNCHANGED <<accesses, async, stored>>

RoundTripResponseStep == \E i \in CallIds : RoundTripResponse(i)

\* The process ends with no call in flight and a new one starts: the module
\* is evaluated again (var currentConfig = null), Storage keeps its items.
\* The calls and Configs of the old process stay on record.
Restart ==
  /\ \A i \in CallIds : calls[i].pc \in {"returned", "resolved", "rejected"}
  /\ currentConfig # 0
  /\ currentConfig' = 0
  /\ UNCHANGED <<accesses, async, stored, heap, calls>>

RoundTripNext ==
  \/ GetCall
  \/ RoundTripResponseStep
  \/ StorageWriteStep
  \/ GetResolveStep
  \/ Restart
  \/ CurrentCached
  \/ CurrentSync
  \/ CurrentAsync
  \/ StorageReadStep
  \/ CurrentContinueStep

RoundTripSpec == RoundTripInit /\ [][RoundTripNext]_vars

(***************************************************************************)
(* Vocabulary of the properties.                                           *)
(***************************************************************************)
IsGet(i) == calls[i].op = "get"
IsCurrent(i) == calls[i].op = "current"

\* The raw params of the response call i received.
RawParams(i) == GetProp(calls[i].response, "params")

\* Call i has received a response with params and built its Config.
Installed(i) == IsGet(i) /\ calls[i].config # 0

\* Call i is a current() that took the asynchronous branch.
IsAsyncCurrent(i) == IsCurrent(i) /\ calls[i].pc \in {"read", "got", "resolved"}

\* The step in which get() call i processes a response with params.
InstallStep(i) == IsGet(i) /\ calls[i].pc = "request" /\ calls'[i].pc = "write"
\* The step in which Storage applies the write of get() call i.
WriteStep(i) == IsGet(i) /\ calls[i].pc = "write" /\ calls'[i].pc = "written"
\* The step in which get() call i resolves.
ResolveStep(i) == IsGet(i) /\ calls[i].pc = "written" /\ calls'[i].pc = "resolved"

\* No call other than i has written the cache or the snapshot: no other get()
\* has received a response with params, no current() went to storage
\* asynchronously.
NoOtherWriter(i) ==
  \A j \in CallIds \ {i} : ~Installed(j) /\ ~IsAsyncCurrent(j)

\* The Config of the get() whose response with params was processed last:
\* configs are constructed in heap order.
LastInstalled ==
  CHOOSE c \in {calls[i].config : i \in {j \in CallIds : Installed(j)}} :
    \A i \in CallIds : Installed(i) => calls[i].config <= c

(***************************************************************************)
(* C1, as stated: when a get() resolves, it resolves with a new Config     *)
(* holding the per-field decode of params, the process-wide cache holds    *)
(* that Config and Storage holds the JSON text of the raw params.          *)
(***************************************************************************)
C1_AtResolution ==
  [][\A i \in CallIds : ResolveStep(i) =>
       /\ heap'[calls'[i].result].attributes
            = DecodeFields(RawParams(i).v, 1, EmptyObject)
       /\ currentConfig' = calls'[i].result
       /\ stored' = Item(Stringify(RawParams(i)))]_vars

(***************************************************************************)
(* C1, amended: the step that processes a response with params constructs  *)
(* a new Config holding the per-field decode of params and makes it the    *)
(* process-wide cache; the write stores the JSON text of the raw params;   *)
(* get() resolves with that Config; and at resolution the cache and the    *)
(* snapshot are still these when no other call has written them.           *)
(***************************************************************************)
C1_GetInstallsAndPersists ==
  [][\A i \in CallIds :
       /\ InstallStep(i) =>
            /\ calls'[i].config = Len(heap) + 1
            /\ Len(heap') = Len(heap) + 1
            /\ heap'[calls'[i].config].attributes
                 = DecodeFields(GetProp(calls'[i].response, "params").v, 1, EmptyObject)
            /\ currentConfig' = calls'[i].config
            /\ calls'[i].text = Stringify(GetProp(calls'[i].response, "params"))
       /\ WriteStep(i) => stored' = Item(Stringify(RawParams(i)))
       /\ ResolveStep(i) =>
            /\ calls'[i].result = calls[i].config
            /\ heap'[calls'[i].result].attributes
                 = DecodeFields(RawParams(i).v, 1, EmptyObject)
            /\ NoOtherWriter(i) =>
                 /\ currentConfig' = calls'[i].result
                 /\ stored' = Item(Stringify(RawParams(i)))]_vars

\* A lone get() has resolved with a Config whose Date attribute was decoded.
C1_Witness ==
  \E i \in CallIds :
    /\ IsGet(i) /\ calls[i].pc = "resolved"
    /\ calls[i].response = ResponseOf(ParamsDate)
    /\ NoOtherWriter(i)
    /\ currentConfig = calls[i].result
    /\ GetProp(heap[currentConfig].attributes, "d") = DateOf(Str("t"))
    /\ stored = Item(Stringify(ParamsDate))

(***************************************************************************)
(* C2: once a get() has received a response with params, the cache is the  *)
(* Config built from the most recently received such response.             *)
(***************************************************************************)
C2_CacheIsMostRecentFetch ==
  (\E i \in CallIds : Installed(i)) => currentConfig = LastInstalled

(***************************************************************************)
(* C3, as stated: when a get() resolves after another get() has resolved,  *)
(* the cache holds the Config of the one resolving now.  Only get() calls  *)
(* are made.                                                               *)
(***************************************************************************)
C3_LaterResolutionWins ==
  [][\A i \in CallIds : \A j \in CallIds \ {i} :
       ( /\ \A k \in CallIds : IsGet(k)
         /\ IsGet(j) /\ calls[j].pc = "resolved"
         /\ ResolveStep(i) )
       => currentConfig' = calls'[i].result]_vars

(***************************************************************************)
(* C3, amended: the later processed response wins.  Of two get() calls     *)
(* that received params, the cache never holds the Config of the one whose *)
(* response was processed first; and while no current() has gone to        *)
(* storage asynchronously, the cache holds the Config of the get() whose   *)
(* response was processed last, whichever call resolves last.              *)
(***************************************************************************)
C3_LaterResponseWins ==
  /\ \A i \in CallIds : \A j \in CallIds :
       (Installed(i) /\ Installed(j) /\ calls[i].config < calls[j].config)
         => currentConfig # calls[i].config
  /\ ( /\ \E i \in CallIds : Installed(i)
       /\ \A k \in CallIds : ~IsAsyncCurrent(k) )
     => currentConfig = LastInstalled

\* Two get() calls have both resolved; the one made first received its
\* response last, and its Config is the cache.
C3_Witness ==
  /\ Len(calls) >= 2
  /\ IsGet(1) /\ calls[1].pc = "resolved"
  /\ IsGet(2) /\ calls[2].pc = "resolved"
  /\ calls[2].config < calls[1].config
  /\ currentConfig = calls[1].result

(***************************************************************************)
(* C4: a get() whose response is absent or has no params field rejects     *)
(* with INVALID_JSON; neither entering get() nor that rejection changes    *)
(* the process-wide cache, a Config or the snapshot; no write is issued,   *)
(* and the rejected call takes no further step.                            *)
(***************************************************************************)
C4_InvalidResponseRejects ==
  [][/\ \A i \in CallIds :
          /\ ( /\ IsGet(i) /\ calls[i].pc = "request"
               /\ calls'[i].response \in {Undefined, EmptyObject} )
             => /\ calls'[i].pc = "rejected"
                /\ calls'[i].error = "INVALID_JSON"
                /\ calls'[i].config = 0 /\ calls'[i].text = <<>>
                /\ currentConfig' = currentConfig
                /\ heap' = heap
                /\ stored' = stored
          /\ calls[i].pc = "rejected" => calls'[i] = calls[i]
     /\ (Len(calls') > Len(calls) /\ calls'[Len(calls')].op = "get")
          => currentConfig' = currentConfig /\ heap' = heap /\ stored' = stored]_vars

\* A get() was rejected for a response without params while the cache held
\* the Config of an earlier get(), which it still holds.
C4_Witness ==
  \E i \in CallIds : \E j \in CallIds :
    /\ IsGet(i) /\ calls[i].pc = "rejected" /\ calls[i].error = "INVALID_JSON"
    /\ calls[i].response = EmptyObject
    /\ Installed(j) /\ currentConfig = calls[j].config
    /\ stored = NoItem

(***************************************************************************)
(* C5, as stated: after the storage write of a get() has failed, the cache *)
(* is the Config that get() fetched.  Only get() calls are made.           *)
(***************************************************************************)
C5_StaysReplaced ==
  \A i \in CallIds :
    ( /\ \A k \in CallIds : IsGet(k)
      /\ IsGet(i) /\ calls[i].pc = "rejected" /\ calls[i].error = "storage" )
    => currentConfig = calls[i].config

(***************************************************************************)
(* C5, amended: a failed storage write rejects the get() with that         *)
(* failure, the call never resolves, and the failure does not roll the     *)
(* cache back: the Config installed when the response was processed is     *)
(* still the cache unless another call has replaced it since, so the cache *)
(* is populated, and it is that Config when no other call wrote the cache. *)
(***************************************************************************)
C5_WriteFailureKeepsCache ==
  [][\A i \in CallIds :
       /\ (IsGet(i) /\ calls[i].pc = "write" /\ calls'[i].pc = "rejected")
            => /\ calls'[i].error = "storage"
               /\ calls'[i].result = 0
               /\ currentConfig' = currentConfig
               /\ heap' = heap
       /\ (IsGet(i) /\ calls'[i].pc = "rejected" /\ calls'[i].error = "storage")
            => /\ calls'[i].config \in 1..Len(heap')
               /\ heap'[calls'[i].config].attributes
                    = DecodeFields(GetProp(calls'[i].response, "params").v, 1, EmptyObject)
               /\ currentConfig' # 0
               /\ NoOtherWriter(i)' => currentConfig' = calls'[i].config
       /\ calls[i].pc = "rejected" => calls'[i] = calls[i]]_vars

\* The write of a get() failed, and a current() made afterwards returned the
\* Config that get() had fetched.
C5_Witness ==
  \E i \in CallIds : \E j \in CallIds :
    /\ IsGet(i) /\ calls[i].pc = "rejected" /\ calls[i].error = "storage"
    /\ i < j /\ IsCurrent(j) /\ calls[j].pc = "returned"
    /\ calls[j].result = calls[i].config
    /\ currentConfig = calls[i].config

\* The step in which a current() call is entered.
EnterCurrent == Len(calls') = Len(calls) + 1 /\ calls'[Len(calls')].op = "current"

(***************************************************************************)
(* C6: with the cache populated, current() returns the cached Config       *)
(* itself at once, whatever the storage backend, reads no storage and      *)
(* changes neither the cache nor any Config.                               *)
(***************************************************************************)
C6_CachedReturnedSynchronously ==
  [][(EnterCurrent /\ currentConfig # 0) =>
       /\ calls'[Len(calls')].pc = "returned"
       /\ calls'[Len(calls')].result = currentConfig
       /\ ~calls'[Len(calls')].readStorage
       /\ currentConfig' = currentConfig
       /\ heap' = heap
       /\ stored' = stored]_vars

\* With an asynchronous backend a current() returned the Config a get() had
\* installed, without a storage read.
C6_Witness ==
  /\ async
  /\ \E i \in CallIds : \E j \in CallIds :
       /\ Installed(i)
       /\ IsCurrent(j) /\ calls[j].pc = "returned" /\ ~calls[j].readStorage
       /\ calls[j].result = calls[i].config
       /\ currentConfig = calls[j].result

\* The text parses to an object that decode() accepts.
ValidSnapshot(item) ==
  /\ ItemTruthy(item)
  /\ JSONParse(item.text).t = "object"
  /\ Decode(JSONParse(item.text)) # Thrown

C8_SyncNoSnapshotGivesEmpty ==
  [][/\ (EnterCurrent /\ currentConfig = 0 /\ ~async /\ stored = NoItem) =>
          /\ calls'[Len(calls')].pc = "returned"
          /\ calls'[Len(calls')].result = Len(heap) + 1
          /\ Len(heap') = Len(heap) + 1
          /\ heap'[Len(heap')] = NewParseConfig
          /\ currentConfig' = 0
          /\ stored' = stored
     /\ (EnterCurrent /\ currentConfig = 0) => calls'[Len(calls')].readStorage]_vars

\* Two current() calls found no snapshot: each read storage and returned its
\* own empty Config.
C8_Witness ==
  /\ ~async /\ stored = NoItem /\ currentConfig = 0
  /\ \E i \in CallIds : \E j \in CallIds :
       /\ i < j
       /\ IsCurrent(i) /\ calls[i].pc = "returned" /\ calls[i].readStorage
       /\ IsCurrent(j) /\ calls[j].pc = "returned" /\ calls[j].readStorage
       /\ calls[i].result # calls[j].result
       /\ heap[calls[i].result] = NewParseConfig
       /\ heap[calls[j].result] = NewParseConfig

\* The text is malformed JSON, or parses to something that is not an object.
BadSnapshot(item) ==
  /\ ItemTruthy(item)
  /\ JSONParse(item.text).t # "object"

(***************************************************************************)
(* C9: a snapshot that is malformed JSON or parses to a non-object is      *)
(* treated as absent on both branches: current() returns (or resolves      *)
(* with) a new empty Config, raises no error and does not populate the     *)
(* cache.                                                                  *)
(***************************************************************************)
C9_BadSnapshotTreatedAsAbsent ==
  [][/\ (EnterCurrent /\ currentConfig = 0 /\ ~async /\ BadSnapshot(stored)) =>
          /\ calls'[Len(calls')].pc = "returned"
          /\ calls'[Len(calls')].error = ""
          /\ heap'[calls'[Len(calls')].result] = NewParseConfig
          /\ currentConfig' = 0
     /\ \A i \in CallIds :
          (IsCurrent(i) /\ calls[i].pc = "got" /\ BadSnapshot(calls[i].data)) =>
            /\ calls'[i].pc \in {"got", "resolved"}
            /\ calls'[i].error = ""
            /\ calls'[i].pc = "resolved" =>
                 /\ heap'[calls'[i].result] = NewParseConfig
                 /\ currentConfig' = currentConfig]_vars

\* An asynchronous current() read a number as its snapshot and resolved with
\* an empty Config, the cache still absent.
C9_Witness ==
  \E i \in CallIds :
    /\ IsCurrent(i) /\ calls[i].pc = "resolved"
    /\ calls[i].data = Item(<<NumTok(1)>>)
    /\ heap[calls[i].result] = NewParseConfig
    /\ currentConfig = 0

(***************************************************************************)
(* C10: with the cache absent and an asynchronous backend, current()       *)
(* returns a pending result; every pending result eventually resolves; and *)
(* the continuation resolves, for whatever snapshot was read, with the     *)
(* Config the synchronous branch builds from it, and sets the cache        *)
(* exactly when the synchronous branch would.                              *)
(***************************************************************************)
C10_AsyncResolvesLikeSync ==
  /\ [][/\ (EnterCurrent /\ currentConfig = 0 /\ async) =>
             /\ calls'[Len(calls')].pc = "read"
             /\ calls'[Len(calls')].result = 0
             /\ currentConfig' = 0
        /\ \A i \in CallIds :
             (IsCurrent(i) /\ calls[i].pc = "got" /\ calls'[i].pc # "got") =>
               /\ calls'[i].pc = "resolved"
               /\ calls'[i].result = calls[i].config
               /\ heap'[calls'[i].result] = SyncLoad(calls[i].data).config
               /\ currentConfig' = IF SyncLoad(calls[i].data).cached
                                     THEN calls'[i].result
                                     ELSE currentConfig]_vars
  /\ \A i \in 1..MaxCalls :
       (i \in CallIds /\ calls[i].pc \in {"read", "got"})
         ~> (i \in CallIds /\ calls[i].pc = "resolved")

\* An asynchronous current() resolved with the Config of the stored
\* {"a":1}, now the cache.
C10_Witness ==
  /\ async
  /\ \E i \in CallIds :
       /\ IsCurrent(i) /\ calls[i].pc = "resolved"
       /\ calls[i].data = Item(Stringify(SnapshotA))
       /\ GetProp(heap[calls[i].result].attributes, "a") = Num(1)
       /\ currentConfig = calls[i].result

\* The step in which the then-callback of an asynchronous current() decodes
\* the snapshot it read.
HydrateStep(i) ==
  /\ IsCurrent(i) /\ calls[i].pc = "got" /\ calls'[i].pc = "resolved"
  /\ ValidSnapshot(calls[i].data)

(***************************************************************************)
(* C11: the process-wide cache is absent initially; it changes only in the *)
(* step of a get() that processes a response with params or in the step of *)
(* a current() that decodes a stored snapshot; once populated it is never  *)
(* absent again.                                                           *)
(***************************************************************************)
C11_CacheLifecycle ==
  /\ currentConfig = 0
  /\ [][/\ currentConfig # 0 => currentConfig' # 0
        /\ currentConfig' # currentConfig =>
             \/ \E i \in CallIds : InstallStep(i)
             \/ EnterCurrent /\ ~async /\ ValidSnapshot(stored)
             \/ \E i \in CallIds : HydrateStep(i)]_vars

\* The cache was populated from storage, and a later get() was rejected by
\* the network, a later one by storage: the cache is still that Config.
C11_Witness ==
  \E i \in CallIds : \E j \in CallIds : \E k \in CallIds :
    /\ IsCurrent(i) /\ calls[i].readStorage
    /\ calls[i].pc \in {"returned", "resolved"}
    /\ currentConfig = calls[i].result
    /\ IsGet(j) /\ calls[j].pc = "rejected" /\ calls[j].error = "network"
    /\ IsGet(k) /\ calls[k].pc = "rejected" /\ calls[k].error = "INVALID_JSON"

(***************************************************************************)
(* C12: when the request promise of get() rejects, get() rejects with the  *)
(* error of the request; when decode() throws on a field of params, get()  *)
(* rejects with the error decode() threw; in both cases the cache, the     *)
(* Configs and the persisted snapshot are what they were.                  *)
(***************************************************************************)
C12_ErrorsPropagateUnmodified ==
  [][\A i \in CallIds :
       (IsGet(i) /\ calls[i].pc = "request" /\ calls'[i].pc # "request") =>
         /\ calls'[i].response = NoResponse =>
              /\ calls'[i].pc = "rejected"
              /\ calls'[i].error = "network"
              /\ currentConfig' = currentConfig
              /\ heap' = heap
              /\ stored' = stored
         /\ ( /\ calls'[i].response # NoResponse
              /\ ~InvalidResponse(calls'[i].response)
              /\ DecodeFields(GetProp(calls'[i].response, "params").v, 1,
                              EmptyObject) = Thrown ) =>
              /\ calls'[i].pc = "rejected"
              /\ calls'[i].error = "decode"
              /\ currentConfig' = currentConfig
              /\ heap' = heap
              /\ stored' = stored]_vars

\* After a get() installed a Config and persisted its snapshot, one get()
\* was rejected by a throwing decode() and one by the network: the cache and
\* the snapshot are still those of the first.
C12_Witness ==
  \E i \in CallIds : \E j \in CallIds : \E k \in CallIds :
    /\ Installed(i) /\ calls[i].pc = "resolved"
    /\ currentConfig = calls[i].config
    /\ stored = Item(calls[i].text)
    /\ i < j /\ i < k
    /\ IsGet(j) /\ calls[j].pc = "rejected" /\ calls[j].error = "decode"
    /\ calls[j].response = ResponseOf(ParamsBadGeo)
    /\ IsGet(k) /\ calls[k].pc = "rejected" /\ calls[k].error = "network"

\* Accesses k and l are calls of escape on the same Config with the same
\* attribute name, k the earlier.
SameEscape(k, l) ==
  /\ k < l
  /\ accesses[k].op = "escape" /\ accesses[l].op = "escape"
  /\ accesses[k].config = accesses[l].config
  /\ accesses[k].attr = accesses[l].attr

(***************************************************************************)
(* C13, as stated: a second escape(attr) on the same Config returns the    *)
(* same value as the first and does not run the HTML-escaping utility      *)
(* again, for every attribute.                                             *)
(***************************************************************************)
C13_EscapeMemoized ==
  \A k \in 1..Len(accesses) : \A l \in 1..Len(accesses) :
    SameEscape(k, l) =>
      /\ accesses[l].value = accesses[k].value
      /\ ~accesses[l].ran

\* The string form of an attribute value: null and undefined count as the
\* empty string.
StringForm(val) ==
  IF val.t \in {"null", "undefined"} THEN "" ELSE toString(val)

\* The step is a call of op on Config c with attribute name attr.
AccessStep(op, c, attr) ==
  /\ Len(accesses') = Len(accesses) + 1
  /\ accesses'[Len(accesses')].op = op
  /\ accesses'[Len(accesses')].config = c
  /\ accesses'[Len(accesses')].attr = attr

(***************************************************************************)
(* C14, as stated: escape(attr) returns the empty string when the Config   *)
(* has no attribute attr or its value is null or undefined, and otherwise  *)
(* the HTML-escaped string form of the value.                              *)
(***************************************************************************)
C14_EscapeReturns ==
  \A k \in 1..Len(accesses) :
    accesses[k].op = "escape" =>
      LET val == GetProp(heap[accesses[k].config].attributes, accesses[k].attr)
      IN accesses[k].value =
           IF val.t \in {"null", "undefined"}
             THEN Str("")
             ELSE Str(EscapeHtml(toString(val)))

(***************************************************************************)
(* C15: a Config's escaped cache has an entry for an attribute only if     *)
(* escape was called on that Config with that attribute; every entry is    *)
(* the HTML-escaped string form of the Config's attribute value; a call of *)
(* escape changes the escaped cache of its own Config and nothing else:    *)
(* not its attributes, no other Config, not the process-wide cache, not    *)
(* the snapshot.                                                           *)
(***************************************************************************)
C15_EscapedCacheIsDerived ==
  /\ [](\A c \in 1..Len(heap) :
          \A p \in 1..Len(heap[c]._escapedAttributes.v) :
            LET entry == heap[c]._escapedAttributes.v[p]
            IN /\ \E k \in 1..Len(accesses) :
                    /\ accesses[k].op = "escape"
                    /\ accesses[k].config = c
                    /\ accesses[k].attr = entry.k
               /\ entry.x = Str(EscapeHtml(StringForm(
                                  GetProp(heap[c].attributes, entry.k)))))
  /\ [][\A c \in 1..Len(heap) : \A attr \in AttrNames :
          AccessStep("escape", c, attr) =>
            /\ heap'[c].attributes = heap[c].attributes
            /\ Len(heap') = Len(heap)
            /\ \A d \in 1..Len(heap) : d # c => heap'[d] = heap[d]
            /\ currentConfig' = currentConfig
            /\ stored' = stored
            /\ calls' = calls]_vars

\* Of two Configs callers hold, one has the entries "&lt;" for "s" and ""
\* for "n" after two calls of escape; the other has none.
C15_Witness ==
  \E c \in Published : \E d \in Published :
    /\ c # d
    /\ GetProp(heap[c]._escapedAttributes, "s") = Str("&lt;")
    /\ GetProp(heap[c]._escapedAttributes, "n") = Str("")
    /\ GetProp(heap[c].attributes, "s") = Str("<")
    /\ heap[d]._escapedAttributes = EmptyObject
    /\ Len(accesses) = 2

\* Config c has been handed to a caller or installed in the cache.
Visible(c) == c = currentConfig \/ c \in Published

(***************************************************************************)
(* C16: no step of get() or current() changes the attributes of a Config   *)
(* that has been returned to a caller or installed in the cache, nor       *)
(* removes a Config; the step of get() that processes a response with      *)
(* params constructs a new Config and installs it, so a Config obtained    *)
(* earlier keeps its values.                                               *)
(***************************************************************************)
C16_ReplacedWholesale ==
  [][/\ \A c \in 1..Len(heap) :
          Visible(c) =>
            /\ c <= Len(heap')
            /\ heap'[c].attributes = heap[c].attributes
     /\ \A i \in CallIds :
          InstallStep(i) =>
            /\ Len(heap') = Len(heap) + 1
            /\ calls'[i].config = Len(heap')
            /\ currentConfig' = Len(heap')]_vars

\* A caller holds the Config {a: 1, b: 'x'} of a resolved get(); a later
\* get() has installed another Config, with a Date, in the cache.
C16_Witness ==
  \E i \in CallIds : \E j \in CallIds :
    /\ Installed(i) /\ calls[i].pc = "resolved"
    /\ Installed(j) /\ calls[i].config < calls[j].config
    /\ currentConfig = calls[j].config
    /\ heap[calls[i].result].attributes
         = Obj(<<Prop("a", Num(1)), Prop("b", Str("x"))>>)
    /\ GetProp(heap[currentConfig].attributes, "d") = DateOf(Str("t"))

(***************************************************************************)
(* C17, as stated: get(attr) returns the value stored under attr in the    *)
(* Config's attributes, and undefined for every name that is not an        *)
(* attribute of the Config.                                                *)
(***************************************************************************)
C17_GetReturnsStoredValue ==
  \A k \in 1..Len(accesses) :
    accesses[k].op = "get" =>
      accesses[k].value
        = GetProp(heap[accesses[k].config].attributes, accesses[k].attr)

(***************************************************************************)
(* C18: a get() issues its storage write only in the step that processes   *)
(* the response and replaces the cache with its new Config; the write      *)
(* completes only after it was issued; get() resolves only after its write *)
(* completed, with that Config, and never while the write is pending.      *)
(***************************************************************************)
C18_InstallWriteResolveOrder ==
  [][\A i \in CallIds :
       (IsGet(i) /\ calls'[i].pc # calls[i].pc) =>
         /\ calls'[i].pc = "write" =>
              /\ calls[i].pc = "request"
              /\ ~InvalidResponse(calls'[i].response)
              /\ calls'[i].config = Len(heap')
              /\ currentConfig' = calls'[i].config
              /\ calls'[i].text = Stringify(GetProp(calls'[i].response, "params"))
              /\ stored' = stored
         /\ calls'[i].pc = "written" =>
              /\ calls[i].pc = "write"
              /\ stored' = Item(calls[i].text)
         /\ calls'[i].pc = "resolved" =>
              /\ calls[i].pc = "written"
              /\ calls'[i].result = calls[i].config]_vars

\* A get() has resolved after its snapshot was stored; a later get() has
\* replaced the cache, its write is pending and it has not resolved.
C18_Witness ==
  \E i \in CallIds : \E j \in CallIds :
    /\ Installed(i) /\ calls[i].pc = "resolved"
    /\ calls[i].result = calls[i].config
    /\ stored = Item(calls[i].text)
    /\ Installed(j) /\ calls[j].pc = "write" /\ calls[j].result = 0
    /\ currentConfig = calls[j].config

\* No static call is in flight.
Quiescent == \A i \in CallIds : calls[i].pc \in {"returned", "resolved", "rejected"}

\* Exactly one get() has issued a storage write, so that the writes were
\* applied in the order they were issued whatever the backend; the write
\* succeeded and the get() has resolved.
OneWriteInOrder ==
  /\ Cardinality({i \in CallIds : Installed(i)}) = 1
  /\ \A i \in CallIds : Installed(i) => calls[i].pc = "resolved"

(***************************************************************************)
(* C19, as stated, for behaviours with one storage write: when no call is  *)
(* in flight and the get() has succeeded, the persisted snapshot is the    *)
(* JSON text of the raw params from which the cached Config was built,     *)
(* by get() itself or by a current() that loaded that snapshot.            *)
(***************************************************************************)
C19_SnapshotMatchesCache ==
  (Quiescent /\ OneWriteInOrder) =>
    \/ \E i \in CallIds :
         /\ Installed(i)
         /\ currentConfig = calls[i].config
         /\ stored = Item(Stringify(RawParams(i)))
    \/ \E i \in CallIds : \E j \in CallIds :
         /\ Installed(i)
         /\ stored = Item(Stringify(RawParams(i)))
         /\ IsCurrent(j) /\ calls[j].readStorage
         /\ currentConfig = calls[j].result
         /\ calls[j].data = stored

\* current() call j went to storage and loaded the snapshot that get() call
\* i wrote, and both calls have completed.
LoadedSnapshotOf(j, i) ==
  /\ Installed(i) /\ calls[i].pc = "resolved"
  /\ IsCurrent(j) /\ calls[j].readStorage
  /\ calls[j].pc \in {"returned", "resolved"}
  /\ calls[j].data = Item(calls[i].text)

(***************************************************************************)
(* C20, as stated: a current() that, with the cache absent, loads the      *)
(* snapshot a successful get() wrote yields a Config with the attributes   *)
(* of the Config that get() resolved with.                                 *)
(***************************************************************************)
C20_RoundTrip ==
  \A i \in CallIds : \A j \in CallIds :
    LoadedSnapshotOf(j, i) =>
      heap[calls[j].result].attributes = heap[calls[i].result].attributes

====
